---- MODULE Spec2Model ----
(***************************************************************************)
(* Model of pokerhand.py: the Texas Hold'em hand classifier getRank with   *)
(* its helpers isstraight, isstraightflush and isfullhouse, the dealer     *)
(* dealCards, and the drivers that call them (runtest and the simulation). *)
(*                                                                         *)
(* A card is a pair <<suit, value>>.  A Python dict is a sequence of       *)
(* <<key, value>> pairs in insertion order, a Python list is a sequence.   *)
(***************************************************************************)
EXTENDS Integers, Sequences, FiniteSets, TLC

VARIABLES
    sampleFromSet,  \* whether random.sample takes a set (it does up to Python 3.10,
                    \* and raises TypeError from Python 3.11 on)
    deck,           \* dealCards: the cards still in the deck (a set)
    numPlayers,     \* dealCards: the number of players asked for
    playercards,    \* list of the players' card lists
    tablecards,     \* list of the table cards
    ranks,          \* the driver's list of ranks, one per player evaluated
    cardsbysuit,    \* getRank's dict suit -> list of values, as the last call left it
    countsbysuit,   \* getRank's dict suit -> number of cards
    countsbyvalue,  \* getRank's dict value -> number of cards
    values,         \* isstraight's argument list (mutated in place)
    result,         \* isstraight's return value ("none" before the call)
    pc              \* position of the driver

vars == <<sampleFromSet, deck, numPlayers, playercards, tablecards, ranks,
          cardsbysuit, countsbysuit, countsbyvalue, values, result, pc>>

-----------------------------------------------------------------------------
(* Program constants *)

S == "Spade"
H == "Heart"
C == "Club"
D == "Diamond"

STRAIGHT_FLUSH == 0
FOUR_KIND == 1
FULL_HOUSE == 2
FLUSH == 3
STRAIGHT == 4
THREE_KIND == 5
TWO_PAIR == 6
ONE_PAIR == 7
HIGH_CARD == 8

HAND_NAMES == <<"Straight_flush", "Four_kind", "Full_House", "Flush", "Straight",
                "Three_kind", "Two_pair", "One_pair", "High_card">>

ACE_LOW == 1
ACE_HIGH == 14

\* number of cards sampled for one player and for the table
PlayerHandSize == 2
TableSize == 5

suits == <<S, H, C, D>>
SuitSet == {suits[i] : i \in DOMAIN suits}
ValueSet == ACE_LOW .. (ACE_HIGH - 1)
\* itertools.product(suits, values)
Deck == SuitSet \X ValueSet

-----------------------------------------------------------------------------
(* Bounds of the model *)

\* hands of the classifier runs: every Spade, the other suits up to this value
OffSuitMax == 2
\* the dealer's deck: the first DealDeckSize cards of DealOrder
DealDeckSize == 9
\* dealCards is called with 1 .. MaxPlayers players
MaxPlayers == 2
\* the reordered hands: the first OrderDeckSize cards of DealOrder
OrderDeckSize == 8
\* isstraight is called alone on lists of 1 .. MaxLen values in 1 .. MaxVal
MaxLen == 6
MaxVal == 6

-----------------------------------------------------------------------------
(* Python lists and dicts *)

Range(s) == {s[i] : i \in DOMAIN s}

\* x in list
InList(x, s) == \E i \in DOMAIN s : s[i] = x

RECURSIVE InsertSorted(_, _)
InsertSorted(x, s) ==
    IF s = <<>> THEN <<x>>
    ELSE IF x <= Head(s) THEN <<x>> \o s
    ELSE <<Head(s)>> \o InsertSorted(x, Tail(s))

\* list.sort() on a list of integers
RECURSIVE SortAsc(_)
SortAsc(s) == IF s = <<>> THEN <<>> ELSE InsertSorted(Head(s), SortAsc(Tail(s)))

\* key in dict
DictHas(d, k) == \E i \in DOMAIN d : d[i][1] = k

\* dict[key]
DictGet(d, k) == d[CHOOSE i \in DOMAIN d : d[i][1] = k][2]

\* dict[key] = v : an existing key keeps its position, a new one goes last
DictSet(d, k, v) ==
    IF DictHas(d, k)
    THEN [i \in DOMAIN d |-> IF d[i][1] = k THEN <<k, v>> ELSE d[i]]
    ELSE Append(d, <<k, v>>)

\* dict.keys() and dict.values(), in insertion order
DictKeys(d) == [i \in DOMAIN d |-> d[i][1]]
DictValues(d) == [i \in DOMAIN d |-> d[i][2]]

\* max(d, key=d.get): the first key, in insertion order, with the largest value
MaxKey(d) ==
    LET i == CHOOSE i \in DOMAIN d :
                 /\ \A j \in DOMAIN d : d[j][2] <= d[i][2]
                 /\ \A j \in 1 .. (i - 1) : d[j][2] < d[i][2]
    IN d[i][1]

\* max(d.values())
MaxValue(d) == CHOOSE m \in Range(DictValues(d)) : \A x \in Range(DictValues(d)) : x <= m

-----------------------------------------------------------------------------
(* isstraight *)

\* (changed: the Ace never counts as 14)
AppendAceHigh_NoAce(vals) == vals

\* the list after "if ACE_LOW in values: values.append(ACE_HIGH)"
AppendAceHigh(vals) == IF InList(ACE_LOW, vals) THEN Append(vals, ACE_HIGH) ELSE vals

\* (changed: the list is scanned as given)
SortValues_Unsorted(vals) == vals

\* values.sort()
SortValues(vals) == SortAsc(vals)

\* the list as isstraight leaves it (it mutates its argument)
StraightList(vals) == SortValues(AppendAceHigh(vals))

\* the for loop over values[1:], from index i with the given prevval and count;
\* the value of count when the loop ends or breaks
RECURSIVE RunScan(_, _, _, _)
RunScan(vals, i, prevval, count) ==
    IF i > Len(vals) THEN count
    ELSE LET c == IF vals[i] - prevval = 1 THEN count + 1 ELSE 1
         IN IF c = 5 THEN c ELSE RunScan(vals, i + 1, vals[i], c)

isstraight(vals) ==
    LET sorted == StraightList(vals)
    IN RunScan(sorted, 2, sorted[1], 1) = 5

-----------------------------------------------------------------------------
(* isstraightflush, isfullhouse *)

\* (changed: a suit of exactly 5 cards is not looked at)
isstraightflush_AtMost5(cbs, cards) ==
    LET max_suit == MaxKey(cbs)
    IN IF DictGet(cbs, max_suit) <= 5 THEN FALSE
       ELSE isstraight(DictGet(cards, max_suit))

isstraightflush(cbs, cards) ==
    LET max_suit == MaxKey(cbs)
    IN IF DictGet(cbs, max_suit) < 5 THEN FALSE
       ELSE isstraight(DictGet(cards, max_suit))

\* cardsbysuit after the call: isstraight appended to and sorted the list of max_suit
AfterStraightFlush(cbs, cards) ==
    LET max_suit == MaxKey(cbs)
    IN IF DictGet(cbs, max_suit) < 5 THEN cards
       ELSE DictSet(cards, max_suit, StraightList(DictGet(cards, max_suit)))

\* number of entries of dict d whose value is n
CountOf(d, n) == Cardinality({i \in DOMAIN d : d[i][2] = n})

\* (changed: the singles are not counted)
isfullhouse_TripleOnly(cbv) == InList(3, DictValues(cbv))

\* (changed: at most 1 single is allowed)
isfullhouse_AtMostOneSingle(cbv) ==
    IF InList(3, DictValues(cbv))
    THEN CountOf(cbv, 1) <= 1
    ELSE FALSE

isfullhouse(cbv) ==
    IF InList(3, DictValues(cbv))
    THEN CountOf(cbv, 1) <= 2
    ELSE FALSE

\* (changed: 5 cards of a suit are not enough)
isflush_MoreThan5(cbs) == MaxValue(cbs) > 5

\* max(countsbysuit.values()) >= 5
isflush(cbs) == MaxValue(cbs) >= 5

-----------------------------------------------------------------------------
(* getRank *)

\* fullhand = tablecards + playercards
FullHand(pcs, tcs) == tcs \o pcs

\* (changed: a new value starts with a count of 0)
AddCard_CountFromZero(p, suit, value) ==
    [cards |-> IF DictHas(p.cards, suit)
               THEN DictSet(p.cards, suit, Append(DictGet(p.cards, suit), value))
               ELSE DictSet(p.cards, suit, <<value>>),
     bysuit |-> IF DictHas(p.cards, suit)
                THEN DictSet(p.bysuit, suit, DictGet(p.bysuit, suit) + 1)
                ELSE DictSet(p.bysuit, suit, 1),
     byvalue |-> IF DictHas(p.byvalue, value)
                 THEN DictSet(p.byvalue, value, DictGet(p.byvalue, value) + 1)
                 ELSE DictSet(p.byvalue, value, 0)]

\* one round of the preprocessing loop: the dicts p updated with one card
AddCard(p, suit, value) ==
    [cards |-> IF DictHas(p.cards, suit)
               THEN DictSet(p.cards, suit, Append(DictGet(p.cards, suit), value))
               ELSE DictSet(p.cards, suit, <<value>>),
     bysuit |-> IF DictHas(p.cards, suit)
                THEN DictSet(p.bysuit, suit, DictGet(p.bysuit, suit) + 1)
                ELSE DictSet(p.bysuit, suit, 1),
     byvalue |-> IF DictHas(p.byvalue, value)
                 THEN DictSet(p.byvalue, value, DictGet(p.byvalue, value) + 1)
                 ELSE DictSet(p.byvalue, value, 1)]

\* the three dicts after the preprocessing loop has consumed the first n cards
RECURSIVE Preprocess(_, _)
Preprocess(fullhand, n) ==
    IF n = 0 THEN [cards |-> <<>>, bysuit |-> <<>>, byvalue |-> <<>>]
    ELSE AddCard(Preprocess(fullhand, n - 1), fullhand[n][1], fullhand[n][2])

\* (changed: the full house is tested before the four of a kind)
Classify_FullHouseFirst(cards, cbs, cbv) ==
    IF isstraightflush(cbs, cards) THEN STRAIGHT_FLUSH
    ELSE IF isfullhouse(cbv) THEN FULL_HOUSE
    ELSE IF InList(4, DictValues(cbv)) THEN FOUR_KIND
    ELSE IF isflush(cbs) THEN FLUSH
    ELSE IF isstraight(DictKeys(cbv)) THEN STRAIGHT
    ELSE IF InList(3, DictValues(cbv)) THEN THREE_KIND
    ELSE IF InList(2, DictValues(cbv))
         THEN (IF CountOf(cbv, 2) >= 2 THEN TWO_PAIR ELSE ONE_PAIR)
    ELSE HIGH_CARD

\* the if/elif chain
Classify(cards, cbs, cbv) ==
    IF isstraightflush(cbs, cards) THEN STRAIGHT_FLUSH
    ELSE IF InList(4, DictValues(cbv)) THEN FOUR_KIND
    ELSE IF isfullhouse(cbv) THEN FULL_HOUSE
    ELSE IF isflush(cbs) THEN FLUSH
    ELSE IF isstraight(DictKeys(cbv)) THEN STRAIGHT
    ELSE IF InList(3, DictValues(cbv)) THEN THREE_KIND
    ELSE IF InList(2, DictValues(cbv))
         THEN (IF CountOf(cbv, 2) >= 2 THEN TWO_PAIR ELSE ONE_PAIR)
    ELSE HIGH_CARD

\* the rank getRank returns, given the dicts p the preprocessing loop built
RankOf(p) == Classify(p.cards, p.bysuit, p.byvalue)

getRank(pcs, tcs) ==
    RankOf(Preprocess(FullHand(pcs, tcs), Len(FullHand(pcs, tcs))))

\* getRank's locals when it returns, and its return value
AfterClassify(p) ==
    [cardsbysuit |-> AfterStraightFlush(p.bysuit, p.cards),
     countsbysuit |-> p.bysuit,
     countsbyvalue |-> p.byvalue,
     rank |-> RankOf(p)]

getRankState(pcs, tcs) ==
    AfterClassify(Preprocess(FullHand(pcs, tcs), Len(FullHand(pcs, tcs))))

-----------------------------------------------------------------------------
(* Inputs of the classifier runs *)

\* position of a card in itertools.product(suits, values)
SuitIndex(s) == CHOOSE i \in DOMAIN suits : suits[i] = s
CardIndex(c) == (SuitIndex(c[1]) - 1) * (ACE_HIGH - ACE_LOW) + c[2]

\* the cards of a set, listed in deck order
RECURSIVE CardList(_)
CardList(cs) ==
    IF cs = {} THEN <<>>
    ELSE LET c == CHOOSE c \in cs : \A e \in cs : CardIndex(c) <= CardIndex(e)
         IN <<c>> \o CardList(cs \ {c})

\* the cards the classifier runs draw their hands from, in deck order
ModelDeck == CardList({c \in Deck : c[1] = S \/ c[2] <= OffSuitMax})

\* the dealer's bounded deck
DealOrder == <<<<S, 1>>, <<S, 10>>, <<S, 11>>, <<S, 12>>, <<S, 13>>,
               <<H, 1>>, <<D, 1>>, <<H, 13>>, <<H, 12>>, <<C, 1>>, <<D, 13>>>>
DealDeck == {DealOrder[i] : i \in 1 .. DealDeckSize}

\* the cards the reordered classifier runs draw their hands from
OrderDeck == {DealOrder[i] : i \in 1 .. OrderDeckSize}

\* the lists of 1 .. MaxLen values in 1 .. MaxVal
ValueLists == UNION {[1 .. n -> 1 .. MaxVal] : n \in 1 .. MaxLen}

-----------------------------------------------------------------------------
(* The classifier called on one hand, as runtest does *)

\* every hand of 2 player cards and 5 table cards out of ModelDeck, in deck order
Init ==
    \E p1 \in 1 .. Len(ModelDeck) : \E p2 \in (p1 + 1) .. Len(ModelDeck) :
    \E t1 \in (p2 + 1) .. Len(ModelDeck) : \E t2 \in (t1 + 1) .. Len(ModelDeck) :
    \E t3 \in (t2 + 1) .. Len(ModelDeck) : \E t4 \in (t3 + 1) .. Len(ModelDeck) :
    \E t5 \in (t4 + 1) .. Len(ModelDeck) :
        /\ playercards = <<<<ModelDeck[p1], ModelDeck[p2]>>>>
        /\ tablecards = <<ModelDeck[t1], ModelDeck[t2], ModelDeck[t3],
                          ModelDeck[t4], ModelDeck[t5]>>
        /\ sampleFromSet = TRUE
        /\ deck = {}
        /\ numPlayers = 1
        /\ ranks = <<>>
        /\ cardsbysuit = <<>>
        /\ countsbysuit = <<>>
        /\ countsbyvalue = <<>>
        /\ values = <<>>
        /\ result = "none"
        /\ pc = "rank"

\* rank = getRank(pc, tablecards); ranks.append(rank), for the next player
RankPlayer ==
    /\ pc = "rank"
    /\ Len(ranks) < Len(playercards)
    /\ \E st \in {getRankState(playercards[Len(ranks) + 1], tablecards)} :
          /\ ranks' = Append(ranks, st.rank)
          /\ cardsbysuit' = st.cardsbysuit
          /\ countsbysuit' = st.countsbysuit
          /\ countsbyvalue' = st.countsbyvalue
    /\ pc' = IF Len(ranks) + 1 = Len(playercards) THEN "done" ELSE "rank"
    /\ UNCHANGED <<sampleFromSet, deck, numPlayers, playercards, tablecards, values, result>>

Next == RankPlayer

Spec == Init /\ [][Next]_vars

-----------------------------------------------------------------------------
(* dealCards(numPlayers), step by step *)

InitDeal ==
    /\ sampleFromSet \in BOOLEAN
    /\ numPlayers \in 1 .. MaxPlayers
    /\ deck = DealDeck
    /\ playercards = <<>>
    /\ tablecards = <<>>
    /\ ranks = <<>>
    /\ cardsbysuit = <<>>
    /\ countsbysuit = <<>>
    /\ countsbyvalue = <<>>
    /\ values = <<>>
    /\ result = "none"
    /\ pc = "deal"

\* random.sample(population, k): the lists of k distinct cards of the population;
\* it raises ValueError when the population is smaller than k
Samples(population, k) ==
    {s \in [1 .. k -> population] : \A i, j \in 1 .. k : i # j => s[i] # s[j]}

\* (changed: the sampled cards stay in the deck)
DealPlayer_NoRemove ==
    /\ pc = "deal"
    /\ Len(playercards) < numPlayers
    /\ IF ~sampleFromSet \/ Cardinality(deck) < PlayerHandSize
       THEN /\ pc' = "error"
            /\ UNCHANGED <<deck, playercards>>
       ELSE \E cards \in Samples(deck, PlayerHandSize) :
                /\ deck' = deck
                /\ playercards' = Append(playercards, cards)
                /\ pc' = "deal"
    /\ UNCHANGED <<sampleFromSet, numPlayers, tablecards, ranks, cardsbysuit,
                   countsbysuit, countsbyvalue, values, result>>

\* one round of the loop over the players: sample 2 cards, remove them from the deck
DealPlayer ==
    /\ pc = "deal"
    /\ Len(playercards) < numPlayers
    /\ IF ~sampleFromSet \/ Cardinality(deck) < PlayerHandSize
       THEN /\ pc' = "error"
            /\ UNCHANGED <<deck, playercards>>
       ELSE \E cards \in Samples(deck, PlayerHandSize) :
                /\ deck' = deck \ Range(cards)
                /\ playercards' = Append(playercards, cards)
                /\ pc' = "deal"
    /\ UNCHANGED <<sampleFromSet, numPlayers, tablecards, ranks, cardsbysuit,
                   countsbysuit, countsbyvalue, values, result>>

\* after the loop: sample the 5 table cards, remove them from the deck, return
DealTable ==
    /\ pc = "deal"
    /\ Len(playercards) = numPlayers
    /\ IF ~sampleFromSet \/ Cardinality(deck) < TableSize
       THEN /\ pc' = "error"
            /\ UNCHANGED <<deck, tablecards>>
       ELSE \E cards \in Samples(deck, TableSize) :
                /\ deck' = deck \ Range(cards)
                /\ tablecards' = cards
                /\ pc' = "dealt"
    /\ UNCHANGED <<sampleFromSet, numPlayers, playercards, ranks, cardsbysuit,
                   countsbysuit, countsbyvalue, values, result>>

NextDeal == DealPlayer \/ DealTable

SpecDeal == InitDeal /\ [][NextDeal]_vars

-----------------------------------------------------------------------------
(* The classifier called on the cards of a hand in any order and any split *)

InitOrder ==
    \E s \in Samples(OrderDeck, PlayerHandSize + TableSize) :
        /\ tablecards = SubSeq(s, 1, TableSize)
        /\ playercards = <<SubSeq(s, TableSize + 1, Len(s))>>
        /\ sampleFromSet = TRUE
        /\ deck = {}
        /\ numPlayers = 1
        /\ ranks = <<>>
        /\ cardsbysuit = <<>>
        /\ countsbysuit = <<>>
        /\ countsbyvalue = <<>>
        /\ values = <<>>
        /\ result = "none"
        /\ pc = "rank"

NextOrder == RankPlayer

SpecOrder == InitOrder /\ [][NextOrder]_vars

-----------------------------------------------------------------------------
(* isstraight called alone on a list of values *)

InitStraight ==
    /\ values \in ValueLists
    /\ result = "none"
    /\ sampleFromSet = TRUE
    /\ deck = {}
    /\ numPlayers = 0
    /\ playercards = <<>>
    /\ tablecards = <<>>
    /\ ranks = <<>>
    /\ cardsbysuit = <<>>
    /\ countsbysuit = <<>>
    /\ countsbyvalue = <<>>
    /\ pc = "straight"

CallIsStraight ==
    /\ pc = "straight"
    /\ result' = isstraight(values)
    /\ values' = StraightList(values)
    /\ pc' = "done"
    /\ UNCHANGED <<sampleFromSet, deck, numPlayers, playercards, tablecards, ranks,
                   cardsbysuit, countsbysuit, countsbyvalue>>

NextStraight == CallIsStraight

SpecStraight == InitStraight /\ [][NextStraight]_vars

-----------------------------------------------------------------------------
(* Poker rules, stated on sets of cards, for the properties below *)

\* the 7 cards given to the i-th call of getRank
HandOf(i) == Range(playercards[i]) \cup Range(tablecards)

WellFormed(hand) == hand \subseteq Deck /\ Cardinality(hand) = PlayerHandSize + TableSize

ValuesOf(cards) == {c[2] : c \in cards}
TimesIn(cards, v) == Cardinality({c \in cards : c[2] = v})
InSuit(cards, s) == {c \in cards : c[1] = s}

\* the five values of the run that starts at lo, the Ace closing 10-J-Q-K-A
AceFold(v) == IF v = ACE_HIGH THEN ACE_LOW ELSE v
RunValues(lo) == {AceFold(lo + k) : k \in 0 .. 4}
RunStarts == ACE_LOW .. (ACE_HIGH - 4)
Runs == {RunValues(lo) : lo \in RunStarts}
HasRun(vs) == \E run \in Runs : run \subseteq vs

\* the multiset of the numbers of cards per value, as a set of <<value, number>>
Groups(cards) == {<<v, TimesIn(cards, v)>> : v \in ValuesOf(cards)}
HasGroup(groups, n) == \E g \in groups : g[2] = n

\* the category of a five-card hand with the given groups, flush and straight
FiveRankOf(groups, flush, straight) ==
    IF flush /\ straight THEN STRAIGHT_FLUSH
    ELSE IF HasGroup(groups, 4) THEN FOUR_KIND
    ELSE IF HasGroup(groups, 3) /\ HasGroup(groups, 2) THEN FULL_HOUSE
    ELSE IF flush THEN FLUSH
    ELSE IF straight THEN STRAIGHT
    ELSE IF HasGroup(groups, 3) THEN THREE_KIND
    ELSE IF Cardinality({g \in groups : g[2] = 2}) = 2 THEN TWO_PAIR
    ELSE IF HasGroup(groups, 2) THEN ONE_PAIR
    ELSE HIGH_CARD

FiveRank(five) ==
    FiveRankOf(Groups(five),
               \E s \in SuitSet : \A c \in five : c[1] = s,
               HasRun(ValuesOf(five)))

\* the five-card subsets of a 7-card hand: leave two cards out
FiveCardSubsets(hand) == {hand \ {a, b} : <<a, b>> \in {ab \in hand \X hand : ab[1] # ab[2]}}

\* the strongest category among the 21 five-card subsets of a hand
BestFiveRank(hand) ==
    LET rs == {FiveRank(five) : five \in FiveCardSubsets(hand)}
    IN CHOOSE r \in rs : \A q \in rs : r <= q

\* some suit holds a run of five
HasSuitedRun(hand) == \E s \in SuitSet : HasRun(ValuesOf(InSuit(hand, s)))

-----------------------------------------------------------------------------
(* Properties of the classifier *)

C2_SuitedRunIsStraightFlush ==
    \A i \in DOMAIN ranks :
        (WellFormed(HandOf(i)) /\ HasSuitedRun(HandOf(i))) => ranks[i] = STRAIGHT_FLUSH

\* a ranked hand with the Ace-high run in Spades, a sixth Spade, and a second Ace
C2_Witness ==
    /\ pc = "done"
    /\ {<<S, v>> : v \in RunValues(ACE_HIGH - 4)} \subseteq HandOf(1)
    /\ Cardinality(InSuit(HandOf(1), S)) = 6
    /\ TimesIn(HandOf(1), ACE_LOW) = 2
    /\ ranks[1] = STRAIGHT_FLUSH

\* C3: a well-formed hand in which some value appears exactly 4 times is a
\* FOUR_KIND, whatever the remaining three cards are.
C3_FourTimesIsFourKind ==
    \A i \in DOMAIN ranks :
        (WellFormed(HandOf(i)) /\ HasGroup(Groups(HandOf(i)), 4))
            => ranks[i] = FOUR_KIND

\* a ranked hand with four cards of one value and a pair of another
C3_Witness ==
    /\ pc = "done"
    /\ HasGroup(Groups(HandOf(1)), 4)
    /\ HasGroup(Groups(HandOf(1)), 2)
    /\ ranks[1] = FOUR_KIND

\* a triple plus a second group of 2 or 3 cards of another value
TripleAndGroup(hand) ==
    \E g, h \in Groups(hand) : g[1] # h[1] /\ g[2] = 3 /\ h[2] >= 2

\* C4: a well-formed hand in which no value appears 4 times is a FULL_HOUSE if
\* and only if some value appears exactly 3 times and another at least 2 times;
\* and on every well-formed hand the test isfullhouse makes on the by-value
\* counts agrees with "a triple plus a second group of another value".
C4_FullHouseIffTripleAndGroup ==
    \A i \in DOMAIN ranks :
        WellFormed(HandOf(i)) =>
            /\ ~HasGroup(Groups(HandOf(i)), 4)
                   => (ranks[i] = FULL_HOUSE <=> TripleAndGroup(HandOf(i)))
            /\ i = Len(ranks) => (isfullhouse(countsbyvalue) <=> TripleAndGroup(HandOf(i)))

\* a ranked hand with two triples
C4_Witness ==
    /\ pc = "done"
    /\ Cardinality({g \in Groups(HandOf(1)) : g[2] = 3}) = 2
    /\ ranks[1] = FULL_HOUSE

\* C5: a well-formed hand in which some suit holds 5 or more cards, the values
\* in that suit holding no run of 5, is exactly a FLUSH, also when the values
\* of the 7 cards taken across suits hold a straight.
C5_FlushWithoutSuitedRun ==
    \A i \in DOMAIN ranks :
        (/\ WellFormed(HandOf(i))
         /\ \E s \in SuitSet : /\ Cardinality(InSuit(HandOf(i), s)) >= 5
                               /\ ~HasRun(ValuesOf(InSuit(HandOf(i), s))))
            => ranks[i] = FLUSH

\* a ranked flush whose values, taken across suits, hold a straight
C5_Witness ==
    /\ pc = "done"
    /\ \E s \in SuitSet : Cardinality(InSuit(HandOf(1), s)) >= 5
    /\ ~HasSuitedRun(HandOf(1))
    /\ HasRun(ValuesOf(HandOf(1)))
    /\ ranks[1] = FLUSH

\* C6: a well-formed hand whose values include 1,2,3,4,5, or 10,11,12,13 and 1,
\* is a STRAIGHT or stronger, whatever the suits and the other two cards.
C6_AceLowAndHighStraights ==
    \A i \in DOMAIN ranks :
        (/\ WellFormed(HandOf(i))
         /\ \/ RunValues(ACE_LOW) \subseteq ValuesOf(HandOf(i))
            \/ RunValues(ACE_HIGH - 4) \subseteq ValuesOf(HandOf(i)))
            => ranks[i] <= STRAIGHT

\* a ranked hand with 10, J, Q, K and an Ace of another suit, ranked STRAIGHT
C6_Witness ==
    /\ pc = "done"
    /\ RunValues(ACE_HIGH - 4) \subseteq ValuesOf(HandOf(1))
    /\ ~(RunValues(ACE_LOW) \subseteq ValuesOf(HandOf(1)))
    /\ ranks[1] = STRAIGHT

\* the four-of-a-kind test and the triple test of isfullhouse both succeed
FourAndThree(cbv) == InList(4, DictValues(cbv)) /\ InList(3, DictValues(cbv))

\* C8 as stated: the by-value counts getRank builds for a well-formed hand
\* never hold both a count of exactly 4 and a count of exactly 3.
C8_NoFourAndThree ==
    (ranks # <<>> /\ WellFormed(HandOf(Len(ranks)))) => ~FourAndThree(countsbyvalue)

\* C8 as amended: the by-value counts of a well-formed hand hold both a count
\* of 4 and a count of 3 only when the hand is four cards of one value and
\* three of another; isfullhouse then accepts the counts too, and getRank
\* returns FOUR_KIND because it makes the four-of-a-kind test first.
C8_FourAndThreeIsFourKind ==
    (ranks # <<>> /\ WellFormed(HandOf(Len(ranks))) /\ FourAndThree(countsbyvalue))
        => /\ Len(countsbyvalue) = 2
           /\ isfullhouse(countsbyvalue)
           /\ ranks[Len(ranks)] = FOUR_KIND

\* a ranked hand of four cards of one value and three of another
C8_Witness ==
    /\ pc = "done"
    /\ FourAndThree(countsbyvalue)
    /\ WellFormed(HandOf(1))

-----------------------------------------------------------------------------
(* Properties of the order of the cards and of the dealer *)

\* list s with its first two entries exchanged, and with its first entry moved
\* to the end: the two together generate every reordering of s
SwapFirst(s) == <<s[2], s[1]>> \o SubSeq(s, 3, Len(s))
Rotate(s) == Append(Tail(s), Head(s))

\* getRank called with table cards and player cards taken from the list s
RankOfList(s) == getRank(SubSeq(s, TableSize + 1, Len(s)), SubSeq(s, 1, TableSize))

Dealt == UNION {Range(playercards[i]) : i \in DOMAIN playercards} \cup Range(tablecards)

\* C10: dealCards deals without replacement: after each step every dealt card
\* is out of the deck, the dealt cards are pairwise distinct, no card is in two
\* players' hands or in a hand and on the table, and when dealCards returns
\* each player's 2 cards with the 5 table cards are a well-formed input of
\* getRank.  Where random.sample takes a set, it returns whenever the deck
\* holds 2 * numPlayers + 5 cards.
C10_DealWithoutReplacement ==
    /\ deck \cap Dealt = {}
    /\ deck \cup Dealt = DealDeck
    /\ Cardinality(Dealt) = PlayerHandSize * Len(playercards) + Len(tablecards)
    /\ \A i, j \in DOMAIN playercards :
           i # j => Range(playercards[i]) \cap Range(playercards[j]) = {}
    /\ \A i \in DOMAIN playercards : Range(playercards[i]) \cap Range(tablecards) = {}
    /\ (sampleFromSet /\ PlayerHandSize * numPlayers + TableSize <= Cardinality(DealDeck))
           => pc # "error"
    /\ pc = "dealt" =>
           /\ Len(playercards) = numPlayers
           /\ \A i \in DOMAIN playercards : WellFormed(HandOf(i))

\* a finished deal for two players: their cards and the five table cards are
\* out of the deck, which keeps the rest
C10_Witness ==
    /\ pc = "dealt"
    /\ numPlayers = 2
    /\ Len(playercards) = numPlayers
    /\ Len(tablecards) = TableSize
    /\ Cardinality(deck) = Cardinality(DealDeck) - PlayerHandSize * numPlayers - TableSize

\* C7 as stated: for every non-empty list of values in 1 .. 13, with or without
\* repeated values, isstraight returns True if and only if the list holds 5
\* values forming a run of 5 (a 1 also counting as 14).  isstraight leaves its
\* argument sorted, with 14 appended when it held a 1.
C7_IsStraightIffRun ==
    (pc = "done" /\ values # <<>>) => (result <=> HasRun(Range(values) \ {ACE_HIGH}))

====
